---- MODULE Spec2Model ----
(***************************************************************************)
(* Model of the forum-thread to document converter (ribav-scraper):        *)
(*   - CharacterPropertyExt::merge          (src/src/parser/parser.rs)     *)
(*   - parse_recursive / parse_html_to_docx_format (same file)             *)
(*   - is_citation                          (src/src/utils/functions.rs)   *)
(*   - Post::_get_messages / Post::_messages_to_word (src/src/post/post.rs)*)
(* Rust strings are TLA+ strings, read character by character with SubSeq. *)
(* An Option<T> is a sequence of length at most one: None is << >> and     *)
(* Some(v) is <<v>>.  A panic is a non-empty string naming the failing     *)
(* source line; "" means the call returned normally.                       *)
(***************************************************************************)
EXTENDS Integers, Sequences, FiniteSets, TLC

VARIABLES
    self_cp,      \* merge: the receiver descriptor (`self`)
    other_cp,     \* merge: the argument descriptor (`other`)
    merged,       \* merge: Option of the descriptor returned
    style_attr,   \* span: Option of the `style` attribute string
    resolved,     \* span: Option of the outcome of resolving style_attr
    tree,         \* one message body: the nodes below the container, in document order
    converted,    \* Option of the outcome of converting tree
    messages,     \* Post.messages: Option of the sequence of PostMessage
    last_author,  \* Post.last_author: Option of a name
    document,     \* docx.document: the paragraphs pushed, in order
    pc,           \* position of Post::save
    author_name,  \* anonymize_author: the display name passed as `author`
    anonymized    \* anonymize_author: Option of the string returned

vars == <<self_cp, other_cp, merged, style_attr, resolved, tree, converted,
          messages, last_author, document, pc, author_name, anonymized>>

-----------------------------------------------------------------------------
(* Option<T> and str helpers *)

None == << >>

Some(v) == <<v>>

IsSome(o) == o # << >>

Unwrap(o) == o[1]

\* Option::or
OptOr(a, b) == IF IsSome(a) THEN a ELSE b

\* Option::unwrap_or
UnwrapOr(o, d) == IF IsSome(o) THEN o[1] ELSE d

CharAt(s, i) == SubSeq(s, i, i)

Suffix(s, i) == SubSeq(s, i, Len(s))

StartsWith(s, p) == Len(p) <= Len(s) /\ SubSeq(s, 1, Len(p)) = p

EndsWith(s, p) == Len(p) <= Len(s) /\ SubSeq(s, Len(s) - Len(p) + 1, Len(s)) = p

\* str::contains
Contains(s, p) == \E i \in 1..(Len(s) - Len(p) + 1) : SubSeq(s, i, i + Len(p) - 1) = p

\* the first index from i on at which s holds the character c, 0 when there is none
RECURSIVE IndexFrom(_, _, _)
IndexFrom(s, c, i) ==
    IF i > Len(s) THEN 0 ELSE IF CharAt(s, i) = c THEN i ELSE IndexFrom(s, c, i + 1)

FirstIndex(s, c) == IndexFrom(s, c, 1)

HasChar(s, c) == FirstIndex(s, c) # 0

\* str::split(char): the pieces between the separators; "" gives one empty piece
RECURSIVE Split(_, _)
Split(s, c) ==
    LET i == FirstIndex(s, c)
    IN  IF i # 0 THEN <<SubSeq(s, 1, i - 1)>> \o Split(Suffix(s, i + 1), c) ELSE <<s>>

WhiteSpace == {" ", "\t", "\n"}

RECURSIVE TrimStart(_)
TrimStart(s) == IF Len(s) > 0 /\ CharAt(s, 1) \in WhiteSpace THEN TrimStart(Suffix(s, 2)) ELSE s

RECURSIVE TrimEnd(_)
TrimEnd(s) == IF Len(s) > 0 /\ CharAt(s, Len(s)) \in WhiteSpace
              THEN TrimEnd(SubSeq(s, 1, Len(s) - 1)) ELSE s

\* str::trim
Trim(s) == TrimEnd(TrimStart(s))

\* str::trim_end_matches(pattern): the pattern is removed as often as it ends the string
RECURSIVE TrimEndMatches(_, _)
TrimEndMatches(s, p) ==
    IF Len(p) > 0 /\ EndsWith(s, p) THEN TrimEndMatches(SubSeq(s, 1, Len(s) - Len(p)), p) ELSE s

Digits == <<"0", "1", "2", "3", "4", "5", "6", "7", "8", "9">>

IsDigit(c) == \E d \in 1..10 : Digits[d] = c

DigitVal(c) == (CHOOSE d \in 1..10 : Digits[d] = c) - 1

U8Max == 255

\* checked accumulation of the digits of s onto acc; None on a non-digit or on overflow of u8
RECURSIVE ParseDigits(_, _)
ParseDigits(s, acc) ==
    IF Len(s) = 0 THEN Some(acc)
    ELSE IF ~IsDigit(CharAt(s, 1)) THEN None
    ELSE IF acc * 10 + DigitVal(CharAt(s, 1)) > U8Max THEN None
    ELSE ParseDigits(Suffix(s, 2), acc * 10 + DigitVal(CharAt(s, 1)))

\* str::parse::<u8>: Ok(n) is Some(n), Err is None
ParseU8(s) ==
    IF Len(s) = 0 THEN None
    ELSE IF CharAt(s, 1) = "+"
         THEN (IF Len(s) = 1 THEN None ELSE ParseDigits(Suffix(s, 2), 0))
         ELSE ParseDigits(s, 0)

-----------------------------------------------------------------------------
(* CharacterProperty and CharacterPropertyExt::merge *)

\* CharacterProperty::default(): every field unset
DefaultCp == [bold |-> None, italics |-> None, underline |-> None,
              size |-> None, color |-> None, style_id |-> None]

\* a mutation of merge: the argument's fields take precedence
MergeOtherFirst(a, b) ==
    [bold      |-> OptOr(b.bold, a.bold),
     italics   |-> OptOr(b.italics, a.italics),
     underline |-> OptOr(b.underline, a.underline),
     size      |-> OptOr(b.size, a.size),
     color     |-> OptOr(b.color, a.color),
     style_id  |-> OptOr(b.style_id, a.style_id)]

\* self.merge(other)
merge(a, b) ==
    [bold      |-> OptOr(a.bold, b.bold),
     italics   |-> OptOr(a.italics, b.italics),
     underline |-> OptOr(a.underline, b.underline),
     size      |-> OptOr(a.size, b.size),
     color     |-> OptOr(a.color, b.color),
     style_id  |-> OptOr(a.style_id, b.style_id)]

-----------------------------------------------------------------------------
(* The "span" arm of parse_html_to_docx_format: the style attribute *)

NoPanic == ""

PanicSeparator == "parser.rs:123 Option::unwrap() on a None value"

PanicFontSize == "parser.rs:148 Result::unwrap() on an Err value: ParseIntError"

\* a mutation of DeclPair: a declaration without ':' gets an empty value
DeclPairLenient(prop) ==
    IF Len(Split(prop, ":")) < 2 THEN Some(<<Split(prop, ":")[1], "">>)
    ELSE Some(<<Split(prop, ":")[1], Split(prop, ":")[2]>>)

\* the closure of the map: Some(<<key, value>>), or None where split.next().unwrap() panics
DeclPair(prop) ==
    IF Len(Split(prop, ":")) < 2 THEN None
    ELSE Some(<<Split(prop, ":")[1], Split(prop, ":")[2]>>)

\* el.attr("style").unwrap_or_default().split(';')
Declarations(attr) == Split(UnwrapOr(attr, ""), ";")

\* HashMap::get on the collected pairs: the last pair of a key is the one kept
Get(pairs, key) ==
    IF \E i \in 1..Len(pairs) : pairs[i][1] = key
    THEN Some(pairs[CHOOSE i \in 1..Len(pairs) :
                      pairs[i][1] = key /\ \A j \in (i + 1)..Len(pairs) : pairs[j][1] # key][2])
    ELSE None

\* size.lt(&15).then_some(16u8).unwrap_or(size)
FontSize(size) == IF size < 15 THEN 16 ELSE size

\* the descriptor built from the collected pairs, before the font-size unwrap can panic
CpOf(pairs) ==
    [bold      |-> IF UnwrapOr(Get(pairs, "font-weight"), "") = "bold" THEN Some(TRUE) ELSE None,
     italics   |-> IF UnwrapOr(Get(pairs, "font-style"), "") = "italics" THEN Some(TRUE) ELSE None,
     underline |-> IF UnwrapOr(Get(pairs, "text-decoration"), "") = "underline"
                   THEN Some("single") ELSE None,
     size      |-> IF IsSome(Get(pairs, "font-size"))
                   THEN (IF IsSome(ParseU8(TrimEndMatches(Unwrap(Get(pairs, "font-size")), "px")))
                         THEN Some(FontSize(Unwrap(ParseU8(
                                  TrimEndMatches(Unwrap(Get(pairs, "font-size")), "px")))))
                         ELSE None)
                   ELSE None,
     color     |-> IF IsSome(Get(pairs, "color")) /\ Unwrap(Get(pairs, "color")) = "blue"
                   THEN Some(<<0, 0, 255>>) ELSE None,
     style_id  |-> None]

\* the style part of the "span" arm: [panic, cp]
ResolveStyle(attr) ==
    LET decls == Declarations(attr)
        pairs == [i \in 1..Len(decls) |-> Unwrap(DeclPair(decls[i]))]
    IN  IF \E i \in 1..Len(decls) : DeclPair(decls[i]) = None
        THEN [panic |-> PanicSeparator, cp |-> DefaultCp]
        ELSE IF IsSome(Get(pairs, "font-size"))
                /\ ParseU8(TrimEndMatches(Unwrap(Get(pairs, "font-size")), "px")) = None
        THEN [panic |-> PanicFontSize, cp |-> DefaultCp]
        ELSE [panic |-> NoPanic, cp |-> CpOf(pairs)]

-----------------------------------------------------------------------------
(* Runs (docx_rust::document::Run) *)

TextItem(s) == [kind |-> "text", text |-> s, preserve |-> FALSE]

PreservedItem(s) == [kind |-> "text", text |-> s, preserve |-> TRUE]

BreakItem == [kind |-> "break", text |-> "", preserve |-> FALSE]

\* Run::default(); src is bookkeeping: the index of the node whose arm creates the run
\* (0 for a run that no node of a message body created)
DefaultRun(i) == [property |-> None, content |-> << >>, src |-> i]

\* Run::push_text, Run::push_break
Push(run, item) == [run EXCEPT !.content = Append(@, item)]

\* Run::property(cp): the run's descriptor becomes cp
SetProperty(run, cp) == [run EXCEPT !.property = Some(cp)]

CitationId == "citation"

\* is_citation(&run)
is_citation(run) ==
    UnwrapOr(UnwrapOr(run.property, DefaultCp).style_id, "") = CitationId

\* the visible text of a run
RunText(run) == IF \E k \in 1..Len(run.content) : run.content[k].kind = "text"
                THEN run.content[CHOOSE k \in 1..Len(run.content) : run.content[k].kind = "text"].text
                ELSE ""

-----------------------------------------------------------------------------
(* The node tree of one message body.  tree is the sequence of the nodes      *)
(* below the ".postrow-message" container in document order, each with its    *)
(* depth (the container has depth 0 and index 0).                             *)

TextNode(d, s) == [depth |-> d, kind |-> "text", name |-> "", text |-> s,
                   style |-> None, classes |-> {}]

ElementNode(d, n, st, cl) == [depth |-> d, kind |-> "element", name |-> n, text |-> "",
                              style |-> st, classes |-> cl]

CommentNode(d) == [depth |-> d, kind |-> "comment", name |-> "", text |-> "",
                   style |-> None, classes |-> {}]

DepthOf(t, i) == IF i = 0 THEN 0 ELSE t[i].depth

\* the last index of the subtree rooted at node i
SubtreeEnd(t, i) ==
    CHOOSE e \in i..Len(t) :
        /\ \A k \in (i + 1)..e : t[k].depth > DepthOf(t, i)
        /\ (e = Len(t) \/ t[e + 1].depth <= DepthOf(t, i))

RECURSIVE KidsFrom(_, _, _)
KidsFrom(t, i, k) ==
    IF k > SubtreeEnd(t, i) THEN << >>
    ELSE <<k>> \o KidsFrom(t, i, SubtreeEnd(t, k) + 1)

\* node.children(): the indices of the children of node i, in order
Children(t, i) == KidsFrom(t, i, i + 1)

\* el.child_elements(): the children that are elements
ChildElements(t, i) == SelectSeq(Children(t, i), LAMBDA k : t[k].kind = "element")

\* el.text().collect::<String>(): the text nodes of the subtree, concatenated
RECURSIVE TextFrom(_, _, _)
TextFrom(t, k, e) ==
    IF k > e THEN ""
    ELSE (IF t[k].kind = "text" THEN t[k].text ELSE "") \o TextFrom(t, k + 1, e)

ElementText(t, i) == TextFrom(t, i + 1, SubtreeEnd(t, i))

-----------------------------------------------------------------------------
(* parse_recursive and parse_html_to_docx_format.  An outcome is            *)
(* [panic, runs]: runs is what the call returns when panic = NoPanic.        *)

RootClass == "postrow-message"

CitationClass == "border-blue-500"

PanicUnknownTag(name) == "parser.rs:179 Unknown tag: " \o name

PanicUnknownDiv == "parser.rs:101 not implemented: Unknown div class"

PanicNoChildElement == "parser.rs:93 Option::unwrap() on a None value"

Returned(rs) == [panic |-> NoPanic, runs |-> rs]

Panicked(msg) == [panic |-> msg, runs |-> << >>]

\* the Node::Text arm of parse_recursive
TextRuns(content, i) == <<Push(DefaultRun(i), TextItem(Trim(content)))>>

\* the "a" arm
LinkRun(t, i) ==
    Push(SetProperty(DefaultRun(i), [DefaultCp EXCEPT !.underline = Some("single")]),
         TextItem(ElementText(t, i)))

\* the "br" arm
BreakRun(i) == Push(Push(DefaultRun(i), TextItem("")), BreakItem)

\* the spacer runs of the "span" arm
SpacerRun(i) == Push(DefaultRun(i), PreservedItem(" "))

\* the leading run of a citation block
CitationLabel(i) ==
    Push(SetProperty(DefaultRun(i), [DefaultCp EXCEPT !.bold = Some(TRUE),
                                                   !.style_id = Some(CitationId)]),
         TextItem("Citation: "))

\* a mutation of TagCitation: only a run without a descriptor is tagged
TagCitationUnstyledOnly(run) ==
    IF IsSome(run.property) THEN run
    ELSE SetProperty(run, [DefaultCp EXCEPT !.style_id = Some(CitationId)])

\* the closure mapped over the runs of the quoted content
TagCitation(run) == SetProperty(run, [DefaultCp EXCEPT !.style_id = Some(CitationId)])

\* the body of the loop over the runs of a span's children
SpanChild(cp, child) ==
    SetProperty(child, IF IsSome(child.property) THEN merge(cp, Unwrap(child.property)) ELSE cp)

RECURSIVE parse_recursive(_, _, _)
RECURSIVE parse_html_to_docx_format(_, _, _)
RECURSIVE ParseNodes(_, _, _)

\* the while loop of parse_recursive over the nodes kids, stopped by the first panic
ParseNodes(t, kids, last_element_is_citation) ==
    IF kids = << >> THEN Returned(<< >>)
    ELSE LET node == t[Head(kids)]
             first == CASE node.kind = "text" -> Returned(TextRuns(node.text, Head(kids)))
                        [] node.kind = "element" ->
                               parse_html_to_docx_format(t, Head(kids), last_element_is_citation)
                        [] OTHER -> Returned(<< >>)
         IN  IF first.panic # NoPanic THEN Panicked(first.panic)
             ELSE LET rest == ParseNodes(t, Tail(kids), last_element_is_citation)
                  IN  IF rest.panic # NoPanic THEN Panicked(rest.panic)
                      ELSE Returned(first.runs \o rest.runs)

\* a mutation of parse_recursive: the loop runs over every node below the container
ParseDescendants(t, container, last_element_is_citation) ==
    ParseNodes(t, [k \in 1..(SubtreeEnd(t, container) - container) |-> container + k],
               last_element_is_citation)

parse_recursive(t, container, last_element_is_citation) ==
    ParseNodes(t, Children(t, container), last_element_is_citation)

parse_html_to_docx_format(t, el, last_element_is_citation) ==
    CASE t[el].name = "a" -> Returned(<<LinkRun(t, el)>>)
      [] t[el].name = "div" ->
            IF RootClass \in t[el].classes THEN Returned(<< >>)
            ELSE IF CitationClass \in t[el].classes
            THEN IF ChildElements(t, el) = << >> THEN Panicked(PanicNoChildElement)
                 ELSE LET last == ChildElements(t, el)[Len(ChildElements(t, el))]
                          children == parse_recursive(t, last, TRUE)
                      IN  IF children.panic # NoPanic THEN Panicked(children.panic)
                          ELSE Returned(<<CitationLabel(el)>>
                                        \o [k \in 1..Len(children.runs) |->
                                               TagCitation(children.runs[k])])
            ELSE Panicked(PanicUnknownDiv)
      [] t[el].name = "br" -> Returned(<<BreakRun(el)>>)
      [] t[el].name = "span" ->
            LET style == ResolveStyle(t[el].style)
                children == parse_recursive(t, el, FALSE)
            IN  IF style.panic # NoPanic THEN Panicked(style.panic)
                ELSE IF children.panic # NoPanic THEN Panicked(children.panic)
                ELSE Returned((IF last_element_is_citation THEN << >> ELSE <<SpacerRun(el)>>)
                              \o [k \in 1..Len(children.runs) |->
                                     SpanChild(style.cp, children.runs[k])]
                              \o <<SpacerRun(el)>>)
      [] OTHER -> Panicked(PanicUnknownTag(t[el].name))

\* impl Into<Vec<Run>> for PostMessage: the runs of the container's content.  The call in
\* post.rs passes the container alone; the container is not below a citation block.
into(t) == parse_recursive(t, 0, FALSE)

-----------------------------------------------------------------------------
(* anonymize_author *)

UpperCase == "ABCDEFGHIJKLMNOPQRSTUVWXYZ"

LowerCase == "abcdefghijklmnopqrstuvwxyz"

LowerOf == [c \in {CharAt(UpperCase, i) : i \in 1..Len(UpperCase)} |->
               CharAt(LowerCase, FirstIndex(UpperCase, c))]

UpperOf == [c \in {CharAt(LowerCase, i) : i \in 1..Len(LowerCase)} |->
               CharAt(UpperCase, FirstIndex(LowerCase, c))]

CharToLower(c) == IF c \in DOMAIN LowerOf THEN LowerOf[c] ELSE c

CharToUpper(c) == IF c \in DOMAIN UpperOf THEN UpperOf[c] ELSE c

RECURSIVE ToLowerCase(_)
ToLowerCase(s) == IF Len(s) = 0 THEN "" ELSE CharToLower(CharAt(s, 1)) \o ToLowerCase(Suffix(s, 2))

\* the length of the first word of s (s starts with a non-whitespace character)
RECURSIVE WordLen(_)
WordLen(s) == IF Len(s) = 0 \/ CharAt(s, 1) \in WhiteSpace THEN 0 ELSE 1 + WordLen(Suffix(s, 2))

\* str::split_whitespace
RECURSIVE SplitWhitespace(_)
SplitWhitespace(s) ==
    LET rest == TrimStart(s)
        n == WordLen(rest)
    IN  IF Len(rest) = 0 THEN << >>
        ELSE <<SubSeq(rest, 1, n)>> \o SplitWhitespace(Suffix(rest, n + 1))

RECURSIVE Initials(_)
Initials(words) ==
    IF words = << >> THEN "" ELSE CharToUpper(CharAt(Head(words), 1)) \o Initials(Tail(words))

HonorificPrefix == "rav "

\* a mutation of anonymize_author: a name with the honorific is reduced to initials too
AnonymizeAlways(author) == Initials(SplitWhitespace(author))

anonymize_author(author) ==
    IF StartsWith(ToLowerCase(author), HonorificPrefix) THEN author
    ELSE Initials(SplitWhitespace(author))

-----------------------------------------------------------------------------
(* Post::_messages_to_word.  A paragraph carries, besides its runs and its   *)
(* properties, two bookkeeping fields: the index of the message it was       *)
(* pushed for (0 for the title) and the statement that pushed it.            *)

Owner == "Binyamin Wattenberg"

DatePrefix == "Posté le: "

\* str::replace(from, to)
RECURSIVE Replace(_, _, _)
Replace(s, from, to) ==
    IF Len(s) = 0 THEN ""
    ELSE IF StartsWith(s, from) THEN to \o Replace(Suffix(s, Len(from) + 1), from, to)
    ELSE CharAt(s, 1) \o Replace(Suffix(s, 2), from, to)

\* PostMessage.date: the extracted text
DateString(date) == IF date.prefixed THEN DatePrefix \o date.day ELSE date.day

CitationIndent == 300

Paragraph(rs, ind, role, m) ==
    [runs |-> rs, indent |-> ind, justification |-> None, role |-> role, msg |-> m]

HeadingCp == [DefaultCp EXCEPT !.bold = Some(TRUE), !.size = Some(24),
                               !.underline = Some("single")]

HeadingRun(text) ==
    Push(SetProperty(Push(Push(DefaultRun(0), BreakItem), TextItem(text)), HeadingCp), BreakItem)

EmptyRun == Push(DefaultRun(0), TextItem(""))

TitleParagraph(title) ==
    [runs |-> <<Push(Push(SetProperty(Push(DefaultRun(0), TextItem(title)),
                                       [DefaultCp EXCEPT !.bold = Some(TRUE), !.size = Some(32)]),
                          BreakItem), BreakItem)>>,
     indent |-> None, justification |-> Some("center"), role |-> "title", msg |-> 0]

\* a mutation of author_p: the owner's heading is dropped whoever wrote the previous message
AuthorPAlwaysCollapsed(author, last, m) ==
    IF Contains(author, Owner)
    THEN Paragraph(<<EmptyRun>>, None, "author", m)
    ELSE Paragraph(<<HeadingRun("Question par " \o anonymize_author(author) \o ":")>>,
                   None, "author", m)

\* author_p of message m, written by author, when Post.last_author is last
author_p(author, last, m) ==
    IF Contains(author, Owner)
    THEN IF IsSome(last) /\ Contains(Unwrap(last), Owner)
         THEN Paragraph(<<EmptyRun>>, None, "author", m)
         ELSE Paragraph(<<HeadingRun("Réponse:")>>, None, "author", m)
    ELSE Paragraph(<<HeadingRun("Question par " \o anonymize_author(author) \o ":")>>,
                   None, "author", m)

\* a mutation of DateParagraph: the date is written as supplied
DateParagraphAsSupplied(date, m) ==
    Paragraph(<<Push(SetProperty(Push(DefaultRun(0), TextItem("Le " \o date)),
                                 [DefaultCp EXCEPT !.bold = Some(TRUE),
                                                   !.underline = Some("single")]),
                     BreakItem)>>,
              None, "date", m)

DateParagraph(date, m) ==
    Paragraph(<<Push(SetProperty(Push(DefaultRun(0), TextItem("Le " \o Replace(date, DatePrefix, ""))),
                                 [DefaultCp EXCEPT !.bold = Some(TRUE),
                                                   !.underline = Some("single")]),
                     BreakItem)>>,
              None, "date", m)

\* the number of runs at the head of rs whose citation state is cit
RECURSIVE RunLength(_, _)
RunLength(rs, cit) ==
    IF rs = << >> \/ is_citation(Head(rs)) # cit THEN 0 ELSE 1 + RunLength(Tail(rs), cit)

IndentOf(cit) == IF cit THEN Some(CitationIndent) ELSE None

\* a mutation of BodyParagraphs: the paragraph of the run that ends a group is not indented
RECURSIVE BodyParagraphsNoIndent(_, _)
BodyParagraphsNoIndent(rs, m) ==
    IF rs = << >> THEN << >>
    ELSE LET cit == is_citation(Head(rs))
             n == 1 + RunLength(Tail(rs), cit)
         IN  IF n < Len(rs)
             THEN <<Paragraph(SubSeq(rs, 1, n), IndentOf(cit), "body", m),
                    Paragraph(<<rs[n + 1]>>, None, "body", m)>>
                  \o BodyParagraphsNoIndent(SubSeq(rs, n + 2, Len(rs)), m)
             ELSE <<Paragraph(rs, IndentOf(cit), "body", m)>>

\* a mutation of BodyParagraphs: the run that ends a group is not pushed
RECURSIVE BodyParagraphsDropLast(_, _)
BodyParagraphsDropLast(rs, m) ==
    IF rs = << >> THEN << >>
    ELSE LET cit == is_citation(Head(rs))
             n == 1 + RunLength(Tail(rs), cit)
         IN  IF n < Len(rs)
             THEN <<Paragraph(SubSeq(rs, 1, n), IndentOf(cit), "body", m)>>
                  \o BodyParagraphsDropLast(SubSeq(rs, n + 2, Len(rs)), m)
             ELSE <<Paragraph(rs, IndentOf(cit), "body", m)>>

\* the while loop over messages_iter: the paragraphs pushed for the runs rs of message m
RECURSIVE BodyParagraphs(_, _)
BodyParagraphs(rs, m) ==
    IF rs = << >> THEN << >>
    ELSE LET cit == is_citation(Head(rs))
             n == 1 + RunLength(Tail(rs), cit)
         IN  IF n < Len(rs)
             THEN <<Paragraph(SubSeq(rs, 1, n), IndentOf(cit), "body", m),
                    Paragraph(<<rs[n + 1]>>, IndentOf(~cit), "body", m)>>
                  \o BodyParagraphs(SubSeq(rs, n + 2, Len(rs)), m)
             ELSE <<Paragraph(rs, IndentOf(cit), "body", m)>>

EndParagraph(m) == Paragraph(<<EmptyRun>>, None, "end", m)

\* the body of the for loop over self.messages, from message m on: the state it leaves.
\* A message whose conversion panics stops the loop after last_author is set.
RECURSIVE ForMessages(_, _, _, _)
ForMessages(msgs, m, last, doc) ==
    IF m > Len(msgs) THEN [panic |-> NoPanic, last_author |-> last, document |-> doc]
    ELSE IF msgs[m].message.panic # NoPanic
    THEN [panic |-> msgs[m].message.panic, last_author |-> Some(msgs[m].author), document |-> doc]
    ELSE ForMessages(msgs, m + 1, Some(msgs[m].author),
                     doc \o <<author_p(msgs[m].author, last, m), DateParagraph(DateString(msgs[m].date), m)>>
                         \o BodyParagraphs(msgs[m].message.runs, m)
                         \o <<EndParagraph(m)>>)

-----------------------------------------------------------------------------
(* Inputs *)

OptBool == {None, Some(TRUE), Some(FALSE)}

\* the descriptors merge is applied to
Descriptors ==
    [bold : OptBool, italics : {None, Some(TRUE)}, underline : {None, Some("single")},
     size : {None, Some(16), Some(20)}, color : {None, Some(<<0, 0, 255>>)},
     style_id : {None, Some(CitationId)}]

\* the N of the font-size declarations
FontSizes == {0, 10, 14, 15, 16, 20, 255, 256, 300}

\* the declarations a style attribute is written from
DeclarationTexts ==
    {"font-weight:bold", "font-style:italic", "font-style:italics", "text-decoration:underline",
     "color:blue", "color:red", "margin:0", "bold", ""}
    \cup {"font-size:" \o ToString(n) \o "px" : n \in FontSizes}

MaxDecls == 2

\* the nodes a message body is written from, at depth d
NodesAt(d) ==
    {TextNode(d, " \n "), TextNode(d, " Hi "), CommentNode(d),
     ElementNode(d, "br", None, {}),
     ElementNode(d, "a", None, {}),
     ElementNode(d, "span", Some("font-weight:bold"), {}),
     ElementNode(d, "span", None, {}),
     ElementNode(d, "div", None, {CitationClass}),
     ElementNode(d, "div", None, {}),
     ElementNode(d, "div", None, {RootClass}),
     ElementNode(d, "table", None, {})}

MaxNodes == 3

\* elements that the markup parser never gives children
VoidElements == {"br"}

\* the depths at which a node can follow the nodes of t in document order
OpenDepths(t) ==
    IF t = << >> THEN {1}
    ELSE IF t[Len(t)].kind = "element" /\ t[Len(t)].name \notin VoidElements
    THEN 1..(t[Len(t)].depth + 1)
    ELSE 1..t[Len(t)].depth

Authors == {Owner, "Rav " \o Owner, "John Doe"}

\* the date texts _get_messages extracts, each held as its day and whether the forum's
\* prefix comes before it
Dates == [prefixed : BOOLEAN, day : {"01/02/2021"}]

PlainRun == TextRuns(" Hi ", 0)[1]

QuotedRun == TagCitation(TextRuns("Quoted", 0)[1])

\* the runs a converted message body is made of
RunKinds == {PlainRun, BreakRun(0), QuotedRun}

MaxMessages == 2

\* the runs of a thread, all messages together
MaxRuns == 3

SeqsUpTo(S, n) == UNION {[1..k -> S] : k \in 0..n}

\* the outcomes of converting a message body, with at most n runs
Conversions(n) == {Returned(rs) : rs \in SeqsUpTo(RunKinds, n)}
                  \cup {Panicked(PanicUnknownTag("table"))}

RECURSIVE TotalRuns(_)
TotalRuns(msgs) == IF msgs = << >> THEN 0 ELSE Len(Head(msgs).message.runs) + TotalRuns(Tail(msgs))

PostTitle == "Titre"

\* the style attributes of the spans that enclose a leaf
SpanStyles == {"font-size:16px", "font-size:20px", "font-weight:bold",
               "font-weight:bold;font-size:20px", "color:blue"}

\* the leaves spans are nested around: a text node, a link
Leaves == {TextNode(1, " Hi "), ElementNode(1, "a", None, {})}

MaxSpans == 3

\* the pieces a display name is written from: words and whitespace
NamePieces == {"John", "Doe", "Cohen", "de", "Rav", "rav", "RAV", "Ravi", " ", "\t"}

MaxPieces == 3

RECURSIVE Concat(_)
Concat(ps) == IF ps = << >> THEN "" ELSE Head(ps) \o Concat(Tail(ps))

\* the display names anonymize_author is applied to
Names == {Concat(ps) : ps \in SeqsUpTo(NamePieces, MaxPieces)}

-----------------------------------------------------------------------------
(* The state machines *)

MergeIdle == self_cp = DefaultCp /\ other_cp = DefaultCp /\ merged = None

StyleIdle == style_attr = None /\ resolved = None

ConvertIdle == tree = << >> /\ converted = None

PostIdle == messages = None /\ last_author = None /\ document = << >> /\ pc = "idle"

AnonymizeIdle == author_name = "" /\ anonymized = None

mergeVars == <<self_cp, other_cp, merged>>

styleVars == <<style_attr, resolved>>

convertVars == <<tree, converted>>

postVars == <<messages, last_author, document, pc>>

anonymizeVars == <<author_name, anonymized>>

(* merge *)

InitMerge ==
    /\ self_cp \in Descriptors
    /\ other_cp \in Descriptors
    /\ merged = None
    /\ StyleIdle /\ ConvertIdle /\ PostIdle /\ AnonymizeIdle

Merge ==
    /\ merged = None
    /\ merged' = Some(merge(self_cp, other_cp))
    /\ UNCHANGED <<self_cp, other_cp, styleVars, convertVars, postVars, anonymizeVars>>

NextMerge == Merge

SpecMerge == InitMerge /\ [][NextMerge]_vars

(* the style attribute of a span *)

InitStyle == MergeIdle /\ StyleIdle /\ ConvertIdle /\ PostIdle /\ AnonymizeIdle

\* the markup gives the span's style attribute one more declaration
WriteDeclaration(d) ==
    /\ resolved = None
    /\ \/ style_attr = None /\ style_attr' = Some(d)
       \/ /\ IsSome(style_attr)
          /\ Len(Declarations(style_attr)) < MaxDecls
          /\ style_attr' = Some(Unwrap(style_attr) \o ";" \o d)
    /\ UNCHANGED <<resolved, mergeVars, convertVars, postVars, anonymizeVars>>

Resolve ==
    /\ resolved = None
    /\ resolved' = Some(ResolveStyle(style_attr))
    /\ UNCHANGED <<style_attr, mergeVars, convertVars, postVars, anonymizeVars>>

NextStyle == (\E d \in DeclarationTexts : WriteDeclaration(d)) \/ Resolve

SpecStyle == InitStyle /\ [][NextStyle]_vars

(* the conversion of one message body *)

InitConvert == MergeIdle /\ StyleIdle /\ ConvertIdle /\ PostIdle /\ AnonymizeIdle

\* Html::parse_fragment gives the body one more node
ParseNode(d) ==
    /\ converted = None
    /\ Len(tree) < MaxNodes
    /\ d \in OpenDepths(tree)
    /\ \E n \in NodesAt(d) : tree' = Append(tree, n)
    /\ UNCHANGED <<converted, mergeVars, styleVars, postVars, anonymizeVars>>

\* the nodes up to node k are text, links, breaks and spans
NoBlockBefore(t, k) == \A j \in 1..k : t[j].name # "div"

\* the forum quotes the body, or its end from a top-level node after inline content on:
\* the quoted nodes become the content of the last child element of a citation block
Quote ==
    /\ converted = None
    /\ Len(tree) <= MaxNodes
    /\ \E i \in {1} \cup {k \in 2..Len(tree) : tree[k].depth = 1 /\ NoBlockBefore(tree, k)} :
          tree' = SubSeq(tree, 1, i - 1)
                  \o <<ElementNode(1, "div", None, {CitationClass}),
                       ElementNode(2, "div", None, {})>>
                  \o [k \in 1..(Len(tree) - i + 1) |->
                         [tree[i + k - 1] EXCEPT !.depth = @ + 2]]
    /\ UNCHANGED <<converted, mergeVars, styleVars, postVars, anonymizeVars>>

Convert ==
    /\ converted = None
    /\ converted' = Some(into(tree))
    /\ UNCHANGED <<tree, mergeVars, styleVars, postVars, anonymizeVars>>

NextConvert == (\E d \in 1..(MaxNodes + 2) : ParseNode(d)) \/ Quote \/ Convert

SpecConvert == InitConvert /\ [][NextConvert]_vars

(* the conversion of a leaf below nested spans *)

InitNest ==
    /\ MergeIdle /\ StyleIdle /\ PostIdle /\ AnonymizeIdle
    /\ \E leaf \in Leaves : tree = <<leaf>>
    /\ converted = None

\* the markup encloses the body in one more span
Enclose(st) ==
    /\ converted = None
    /\ Len(tree) <= MaxSpans
    /\ tree' = <<ElementNode(1, "span", Some(st), {})>>
                \o [k \in 1..Len(tree) |-> [tree[k] EXCEPT !.depth = @ + 1]]
    /\ UNCHANGED <<converted, mergeVars, styleVars, postVars, anonymizeVars>>

NextNest == (\E st \in SpanStyles : Enclose(st)) \/ Convert

SpecNest == InitNest /\ [][NextNest]_vars

(* Post::save *)

InitPost ==
    /\ MergeIdle /\ StyleIdle /\ ConvertIdle /\ AnonymizeIdle
    /\ messages = None
    /\ last_author = None
    /\ document = << >>
    /\ pc = "_get_messages"

\* _get_messages pushes one PostMessage; message stands for what its markup converts to
PushMessage ==
    /\ pc = "_get_messages"
    /\ Len(UnwrapOr(messages, << >>)) < MaxMessages
    \* the messages after one whose conversion panics are never read
    /\ \A m \in 1..Len(UnwrapOr(messages, << >>)) : Unwrap(messages)[m].message.panic = NoPanic
    /\ \E author \in Authors, date \in Dates,
          message \in Conversions(MaxRuns - TotalRuns(UnwrapOr(messages, << >>))) :
            \* the pages of a thread come from one template: their dates are written alike
            /\ \A m \in 1..Len(UnwrapOr(messages, << >>)) :
                  Unwrap(messages)[m].date.prefixed = date.prefixed
            /\ messages' = Some(Append(UnwrapOr(messages, << >>),
                                       [author |-> author, date |-> date, message |-> message]))
    /\ UNCHANGED <<last_author, document, pc, mergeVars, styleVars, convertVars, anonymizeVars>>

PanicNoMessages == "post.rs:80 Option::unwrap() on a None value"

\* there is no next page: _get_messages returns and save calls _messages_to_word, which
\* writes the document only when no step panics.  document is what this call pushes; the
\* paragraphs of a file that exists already come before it.
MessagesToWord ==
    /\ pc = "_get_messages"
    /\ IF messages = None
       THEN pc' = PanicNoMessages /\ UNCHANGED <<last_author, document>>
       ELSE LET end == ForMessages(Unwrap(messages), 1, last_author,
                                   <<TitleParagraph(PostTitle)>>)
            IN  IF end.panic # NoPanic
                THEN /\ pc' = end.panic
                     /\ last_author' = end.last_author
                     /\ UNCHANGED document
                ELSE /\ pc' = "saved"
                     /\ last_author' = end.last_author
                     /\ document' = end.document
    /\ UNCHANGED <<messages, mergeVars, styleVars, convertVars, anonymizeVars>>

NextPost == PushMessage \/ MessagesToWord

SpecPost == InitPost /\ [][NextPost]_vars

(* anonymize_author *)

InitAnonymize ==
    /\ MergeIdle /\ StyleIdle /\ ConvertIdle /\ PostIdle
    /\ author_name \in Names
    /\ anonymized = None

Anonymize ==
    /\ anonymized = None
    /\ anonymized' = Some(anonymize_author(author_name))
    /\ UNCHANGED <<author_name, mergeVars, styleVars, convertVars, postVars>>

NextAnonymize == Anonymize

SpecAnonymize == InitAnonymize /\ [][NextAnonymize]_vars

-----------------------------------------------------------------------------
(* Properties *)

CpFields == {"bold", "italics", "underline", "size", "color", "style_id"}

\* C1 (SpecMerge): every field of merge(A, B) is A's value where A has the field set and
\* B's value otherwise, and merge(A, A) is A.
C1_MergePrecedence ==
    IsSome(merged) =>
        /\ \A f \in CpFields :
              Unwrap(merged)[f] = IF self_cp[f] # None THEN self_cp[f] ELSE other_cp[f]
        /\ (self_cp = other_cp => Unwrap(merged) = self_cp)

\* merge has run on two descriptors that disagree on a field both set and where the
\* argument alone sets another field
C1_Witness ==
    /\ IsSome(merged)
    /\ self_cp.size = Some(16) /\ other_cp.size = Some(20)
    /\ self_cp.bold = None /\ other_cp.bold = Some(TRUE)
    /\ Unwrap(merged).size = Some(16) /\ Unwrap(merged).bold = Some(TRUE)

\* the paragraph pushed as author_p for message m
AuthorParagraphOf(doc, m) ==
    doc[CHOOSE k \in 1..Len(doc) : doc[k].msg = m /\ doc[k].role = "author"]

\* the paragraphs pushed for the runs of message m, in order
BodyOf(doc, m) == SelectSeq(doc, LAMBDA p : p.msg = m /\ p.role = "body")

IsOwner(name) == Contains(name, Owner)

PreviousAuthor(msgs, m) == IF m = 1 THEN None ELSE Some(msgs[m - 1].author)

\* a paragraph that holds a heading: its run has a text, bold and underlined
IsHeading(p, text) ==
    /\ Len(p.runs) = 1
    /\ RunText(p.runs[1]) = text
    /\ IsSome(p.runs[1].property)
    /\ Unwrap(p.runs[1].property).bold = Some(TRUE)
    /\ Unwrap(p.runs[1].property).underline = Some("single")

NoHeading(p) == \A k \in 1..Len(p.runs) : RunText(p.runs[k]) = "" /\ p.runs[k].property = None

\* C2 (SpecPost): with last_author unset at first and set to each message's author in turn,
\* a message gets no heading exactly when its author and the previous message's author both
\* match the owner; otherwise an owner message gets the bold, underlined "Réponse:" heading
\* and any other message the bold, underlined "Question par <anonymized author>:" heading.
C2_HeadingCollapse ==
    pc = "saved" =>
        /\ last_author = Some(Unwrap(messages)[Len(Unwrap(messages))].author)
        /\ \A m \in 1..Len(Unwrap(messages)) :
              LET author == Unwrap(messages)[m].author
                  prev   == PreviousAuthor(Unwrap(messages), m)
                  p      == AuthorParagraphOf(document, m)
                  both   == IsOwner(author) /\ IsSome(prev) /\ IsOwner(Unwrap(prev))
              IN  /\ NoHeading(p) <=> both
                  /\ (~both /\ IsOwner(author)) => IsHeading(p, "Réponse:")
                  /\ ~IsOwner(author) =>
                        IsHeading(p, "Question par " \o anonymize_author(author) \o ":")

\* a thread was saved in which the owner answers twice in a row after a question
C2_Witness ==
    /\ pc = "saved"
    /\ Len(Unwrap(messages)) = 2
    /\ IsOwner(Unwrap(messages)[1].author) /\ IsOwner(Unwrap(messages)[2].author)
    /\ Unwrap(messages)[1].author # Unwrap(messages)[2].author
    /\ IsHeading(AuthorParagraphOf(document, 1), "Réponse:")
    /\ NoHeading(AuthorParagraphOf(document, 2))

AllCitation(p) == \A k \in 1..Len(p.runs) : is_citation(p.runs[k])

NoCitation(p) == \A k \in 1..Len(p.runs) : ~is_citation(p.runs[k])

\* C3 (SpecPost): the body paragraphs of a message are the maximal groups of consecutive
\* runs with the same citation-tag state: no two adjacent body paragraphs of one message
\* have the same state.
C3_MaximalGroups ==
    pc = "saved" =>
        \A m \in 1..Len(Unwrap(messages)) :
            LET body == BodyOf(document, m)
            IN  \A k \in 1..(Len(body) - 1) : AllCitation(body[k]) # AllCitation(body[k + 1])

\* C4 (SpecPost): a body paragraph never mixes citation-tagged and untagged runs, and it is
\* indented exactly when its runs carry the citation tag.
C4_HomogeneousIndent ==
    pc = "saved" =>
        \A k \in 1..Len(document) :
            document[k].role = "body" =>
                /\ AllCitation(document[k]) \/ NoCitation(document[k])
                /\ IsSome(document[k].indent) <=> AllCitation(document[k])

\* a message was saved whose two tagged runs share an indented paragraph and whose third,
\* untagged run gets a paragraph of its own, not indented
C4_Witness ==
    /\ pc = "saved"
    /\ \E m \in 1..Len(Unwrap(messages)) :
          LET body == BodyOf(document, m)
          IN  /\ Len(body) = 2
              /\ Len(body[1].runs) = 2 /\ AllCitation(body[1]) /\ IsSome(body[1].indent)
              /\ NoCitation(body[2]) /\ body[2].indent = None

IsCitationBlock(node) ==
    /\ node.kind = "element" /\ node.name = "div"
    /\ CitationClass \in node.classes /\ RootClass \notin node.classes

\* node i is a citation block or lies below one
InCitation(t, i) == \E j \in 1..i : IsCitationBlock(t[j]) /\ i <= SubtreeEnd(t, j)

HasConverted == IsSome(converted) /\ Unwrap(converted).panic = NoPanic

ConvertedRuns == Unwrap(converted).runs

\* C5 (SpecConvert): every run created by a citation block or by a node below one carries the
\* citation tag: the label, text, link, break and spacer runs, at any depth.
C5_CitationTagged ==
    HasConverted =>
        \A k \in 1..Len(ConvertedRuns) :
            (ConvertedRuns[k].src > 0 /\ InCitation(tree, ConvertedRuns[k].src))
                => is_citation(ConvertedRuns[k])

\* a quoted body was converted in which a span lies within a span: the spacer run of the
\* inner span is tagged
C5_Witness ==
    /\ HasConverted
    /\ \E k \in 1..Len(ConvertedRuns) :
          LET i == ConvertedRuns[k].src
          IN  /\ i > 1 /\ InCitation(tree, i)
              /\ tree[i].name = "span" /\ tree[i - 1].name = "span"
              /\ tree[i - 1].depth = 3 /\ tree[i].depth = 4
              /\ is_citation(ConvertedRuns[k])

StyleFields == {"bold", "italics", "underline", "size", "color"}

\* the body is one citation block
OneCitationBlock(t) ==
    /\ Len(t) > 0 /\ IsCitationBlock(t[1]) /\ SubtreeEnd(t, 1) = Len(t)
    /\ ChildElements(t, 1) # << >>

\* the runs of the quoted content, before the citation block tags them
QuotedRuns(t) == parse_recursive(t, ChildElements(t, 1)[Len(ChildElements(t, 1))], TRUE).runs

\* C6 (SpecConvert): tagging the runs of the quoted content keeps every style field a run
\* had set: its value after tagging is its value before.
C6_TagKeepsStyle ==
    (HasConverted /\ OneCitationBlock(tree)) =>
        \A k \in 1..Len(QuotedRuns(tree)) :
            IsSome(QuotedRuns(tree)[k].property) =>
                \A f \in StyleFields :
                    IsSome(Unwrap(QuotedRuns(tree)[k].property)[f]) =>
                        /\ IsSome(ConvertedRuns[k + 1].property)
                        /\ Unwrap(ConvertedRuns[k + 1].property)[f]
                              = Unwrap(QuotedRuns(tree)[k].property)[f]

RunsOf(rs, i) == SelectSeq(rs, LAMBDA r : r.src = i)

\* C7 (SpecConvert): a text node that trims to empty gives no run; any other text node gives
\* one run, with the trimmed text and no style.  Stated of the text nodes directly below the
\* container, whose runs no enclosing element restyles.
C7_TextNodeRuns ==
    HasConverted =>
        \A i \in 1..Len(tree) :
            (tree[i].kind = "text" /\ tree[i].depth = 1) =>
                IF Trim(tree[i].text) = ""
                THEN RunsOf(ConvertedRuns, i) = << >>
                ELSE /\ Len(RunsOf(ConvertedRuns, i)) = 1
                     /\ RunText(RunsOf(ConvertedRuns, i)[1]) = Trim(tree[i].text)
                     /\ RunsOf(ConvertedRuns, i)[1].property = None

HasResolved == IsSome(resolved)

\* C8 (SpecStyle): "font-size:<N>px" resolves, without failure, to size 16 when N < 15 and
\* to N otherwise.
C8_SizeFloor ==
    \A n \in FontSizes :
        (HasResolved /\ style_attr = Some("font-size:" \o ToString(n) \o "px")) =>
            /\ Unwrap(resolved).panic = NoPanic
            /\ Unwrap(resolved).cp.size = Some(IF n < 15 THEN 16 ELSE n)

KnownTags == {"a", "div", "br", "span"}

UnknownTagNodes(t) == {i \in 1..Len(t) : t[i].kind = "element" /\ t[i].name \notin KnownTags}

\* C9 (SpecConvert): a body that holds an element of an unrecognized tag, at any depth, is
\* not converted to runs: the conversion fails, and the failure names the tag.
C9_UnknownTagFails ==
    (IsSome(converted) /\ UnknownTagNodes(tree) # {}) =>
        \E i \in UnknownTagNodes(tree) : Unwrap(converted).panic = PanicUnknownTag(tree[i].name)

\* a declaration of s, between the semicolons, that holds no ':'
LacksSeparator(s) ==
    \E i \in 1..(Len(s) + 1) : \E j \in (i - 1)..Len(s) :
        /\ i = 1 \/ CharAt(s, i - 1) = ";"
        /\ j = Len(s) \/ CharAt(s, j + 1) = ";"
        /\ \A k \in i..j : CharAt(s, k) \notin {";", ":"}

WordStarts(s) ==
    {i \in 1..Len(s) : CharAt(s, i) \notin WhiteSpace /\ (i = 1 \/ CharAt(s, i - 1) \in WhiteSpace)}

\* the position where the k-th word of s starts
WordStart(s, k) == CHOOSE i \in WordStarts(s) : Cardinality({j \in WordStarts(s) : j <= i}) = k

\* s begins with the honorific: "rav" in any letter case, then a space
BeginsWithHonorific(s) ==
    /\ Len(s) >= 4
    /\ CharToLower(CharAt(s, 1)) = "r" /\ CharToLower(CharAt(s, 2)) = "a"
    /\ CharToLower(CharAt(s, 3)) = "v" /\ CharAt(s, 4) = " "

\* c is the letter first in upper case
IsUpperOf(c, first) == CharToLower(c) = CharToLower(first) /\ c \notin DOMAIN UpperOf

\* C11 (SpecAnonymize): anonymize_author returns the name unchanged when it begins with the
\* honorific prefix; otherwise it returns one character per whitespace-separated word, in
\* order: the word's first letter in upper case.
C11_Anonymize ==
    IsSome(anonymized) =>
        IF BeginsWithHonorific(author_name) THEN Unwrap(anonymized) = author_name
        ELSE /\ Len(Unwrap(anonymized)) = Cardinality(WordStarts(author_name))
             /\ \A k \in 1..Len(Unwrap(anonymized)) :
                   IsUpperOf(CharAt(Unwrap(anonymized), k),
                             CharAt(author_name, WordStart(author_name, k)))

\* "John Doe" was anonymized to "JD"
C11_Witness == author_name = "John Doe" /\ anonymized = Some("JD")

\* a name with the honorific was returned as it is
C11_WitnessHonorific == author_name = "Rav Cohen" /\ anonymized = Some("Rav Cohen")

\* the place of a paragraph in the block of its message
RoleRank == [title |-> 0, author |-> 1, date |-> 2, body |-> 3, end |-> 4]

\* the paragraph reads "Le <date>", bold and underlined, with the prefix of date stripped
IsDateOf(p, date) ==
    /\ Len(p.runs) = 1
    /\ StartsWith(RunText(p.runs[1]), "Le ")
    /\ ~Contains(RunText(p.runs[1]), DatePrefix)
    /\ date \in {Suffix(RunText(p.runs[1]), 4), DatePrefix \o Suffix(RunText(p.runs[1]), 4)}
    /\ IsSome(p.runs[1].property)
    /\ Unwrap(p.runs[1].property).bold = Some(TRUE)
    /\ Unwrap(p.runs[1].property).underline = Some("single")

\* C12 (SpecPost): in the saved document the paragraphs of a message come in the order
\* heading paragraph, date paragraph, body paragraphs; every message has exactly one date
\* paragraph, reading "Le <date>" with the prefix stripped, right after its heading
\* paragraph; and no paragraph of a later message comes before one of an earlier message.
C12_ParagraphOrder ==
    pc = "saved" =>
        /\ \A k \in 1..(Len(document) - 1) :
              \/ document[k].msg < document[k + 1].msg
              \/ /\ document[k].msg = document[k + 1].msg
                 /\ RoleRank[document[k].role] <= RoleRank[document[k + 1].role]
        /\ \A m \in 1..Len(Unwrap(messages)) :
              \E k \in 1..(Len(document) - 1) :
                  /\ document[k].msg = m /\ document[k].role = "author"
                  /\ document[k + 1].msg = m /\ document[k + 1].role = "date"
                  /\ IsDateOf(document[k + 1], DateString(Unwrap(messages)[m].date))
                  /\ \A j \in 1..Len(document) :
                        (document[j].msg = m /\ document[j].role \in {"author", "date"})
                            => j \in {k, k + 1}
                  /\ Len(BodyOf(document, m)) > 0 => document[k + 2].role = "body"

\* a thread of two messages was saved, each with a heading, a date and body paragraphs
C12_Witness ==
    /\ pc = "saved"
    /\ Len(Unwrap(messages)) = 2
    /\ \A m \in 1..2 :
          /\ ~NoHeading(AuthorParagraphOf(document, m))
          /\ Len(BodyOf(document, m)) > 0
    /\ Len(BodyOf(document, 1)) = 2
    /\ Unwrap(messages)[1].date.prefixed

\* the body is a leaf below spans only: every node but the last is a span with one child
IsNest(t) ==
    /\ Len(t) >= 2
    /\ \A i \in 1..Len(t) : t[i].depth = i
    /\ \A i \in 1..(Len(t) - 1) : t[i].kind = "element" /\ t[i].name = "span"

\* the spans around the leaf of t that set field f, by index: the higher, the further in
SpansSetting(t, f) == {i \in 1..(Len(t) - 1) : IsSome(ResolveStyle(t[i].style).cp[f])}

Max(S) == CHOOSE x \in S : \A y \in S : y <= x

\* C13 (SpecNest): the run of a leaf below nested spans carries, for every style field that
\* some enclosing span sets, the value set by the innermost of the spans that set it.
C13_InnermostWins ==
    (HasConverted /\ IsNest(tree)) =>
        \A f \in StyleFields :
            SpansSetting(tree, f) # {} =>
                \A k \in 1..Len(ConvertedRuns) :
                    ConvertedRuns[k].src = Len(tree) =>
                        /\ IsSome(ConvertedRuns[k].property)
                        /\ Unwrap(ConvertedRuns[k].property)[f]
                              = ResolveStyle(tree[Max(SpansSetting(tree, f))].style).cp[f]

\* a run that carries the break marker and no text to show
IsBreakOnly(run) ==
    /\ \E k \in 1..Len(run.content) : run.content[k].kind = "break"
    /\ \A k \in 1..Len(run.content) : run.content[k].text = ""

\* C14 (SpecPost): a run that carries only the break marker shows no text and ends the
\* paragraph group: no body paragraph of the saved document holds a run before it and a run
\* after it.
C14_BreakSplits ==
    pc = "saved" =>
        \A p \in 1..Len(document) :
            document[p].role = "body" =>
                \A j \in 1..Len(document[p].runs) :
                    IsBreakOnly(document[p].runs[j]) =>
                        /\ RunText(document[p].runs[j]) = ""
                        /\ j = 1 \/ j = Len(document[p].runs)

\* the parent of node i (0: the container)
Parent(t, i) ==
    IF t[i].depth = 1 THEN 0
    ELSE CHOOSE j \in 1..(i - 1) :
            t[j].depth = t[i].depth - 1 /\ \A k \in (j + 1)..(i - 1) : t[k].depth >= t[i].depth

RECURSIVE Walked(_, _)

\* parse_recursive iterates over the children of node c
Walked(t, c) ==
    \/ c = 0
    \/ /\ t[c].kind = "element" /\ t[c].name = "span"
       /\ Walked(t, Parent(t, c))
    \/ /\ Parent(t, c) # 0
       /\ IsCitationBlock(t[Parent(t, c)])
       /\ c = ChildElements(t, Parent(t, c))[Len(ChildElements(t, Parent(t, c)))]
       /\ Walked(t, Parent(t, Parent(t, c)))

\* the numbers of runs one visit of node i makes
RunsOfOneVisit(t, i) ==
    CASE t[i].kind = "text" -> {1}
      [] t[i].kind = "element" /\ t[i].name \in {"a", "br"} -> {1}
      [] IsCitationBlock(t[i]) -> {1}
      [] t[i].kind = "element" /\ t[i].name = "span" -> {1, 2}
      [] OTHER -> {0}

\* C15 (SpecConvert): in a conversion that returns, a node whose parent the walker iterates
\* over contributes the runs of one visit, and any other node contributes none; the nodes
\* below a citation block the walker hands to the citation arm that contribute runs all lie
\* below the block's last child element.
C15_VisitedOnce ==
    HasConverted =>
        /\ \A k \in 1..Len(ConvertedRuns) : ConvertedRuns[k].src \in 1..Len(tree)
        /\ \A i \in 1..Len(tree) :
              Len(RunsOf(ConvertedRuns, i))
                  \in IF Walked(tree, Parent(tree, i)) THEN RunsOfOneVisit(tree, i) ELSE {0}
        /\ \A j \in 1..Len(tree) : \A i \in (j + 1)..SubtreeEnd(tree, j) :
              (/\ IsCitationBlock(tree[j]) /\ Walked(tree, Parent(tree, j))
               /\ RunsOf(ConvertedRuns, i) # << >>) =>
                  LET last == ChildElements(tree, j)[Len(ChildElements(tree, j))]
                  IN  last < i /\ i <= SubtreeEnd(tree, last)

\* a body was converted whose citation block comes after a text node and quotes a text
\* below a span: each of the four contributes the runs of one visit
C15_Witness ==
    /\ HasConverted
    /\ Len(tree) = 5
    /\ tree[1].kind = "text" /\ IsCitationBlock(tree[2])
    /\ tree[4].name = "span" /\ tree[5].kind = "text" /\ tree[5].depth = 4
    /\ Len(RunsOf(ConvertedRuns, 1)) = 1 /\ Len(RunsOf(ConvertedRuns, 2)) = 1
    /\ Len(RunsOf(ConvertedRuns, 3)) = 0 /\ Len(RunsOf(ConvertedRuns, 4)) = 1
    /\ Len(RunsOf(ConvertedRuns, 5)) = 1

\* the descriptor the claim gives to a style of one declaration
DescriptorOf(decl) ==
    CASE decl = "font-weight:bold" -> [DefaultCp EXCEPT !.bold = Some(TRUE)]
      [] decl = "font-style:italic" -> [DefaultCp EXCEPT !.italics = Some(TRUE)]
      [] decl = "text-decoration:underline" -> [DefaultCp EXCEPT !.underline = Some("single")]
      [] decl = "margin:0" -> DefaultCp

\* C16 (SpecStyle): a style of one declaration resolves to bold alone for
\* "font-weight:bold", italics alone for "font-style:italic", underline alone for
\* "text-decoration:underline", and to the empty descriptor for a key that is not recognized.
C16_RecognizedKeys ==
    \A decl \in {"font-weight:bold", "font-style:italic", "text-decoration:underline",
                 "margin:0"} :
        (HasResolved /\ style_attr = Some(decl)) =>
            /\ Unwrap(resolved).panic = NoPanic
            /\ Unwrap(resolved).cp = DescriptorOf(decl)

\* the runs of the paragraphs ps, in order
RECURSIVE RunsIn(_)
RunsIn(ps) == IF ps = << >> THEN << >> ELSE Head(ps).runs \o RunsIn(Tail(ps))

\* C17 (SpecPost): in the saved document the runs of the body paragraphs of a message, taken
\* in paragraph order, are the runs the message was converted to: none lost, none twice,
\* none out of order.
C17_RunsPreserved ==
    pc = "saved" =>
        \A m \in 1..Len(Unwrap(messages)) :
            RunsIn(BodyOf(document, m)) = Unwrap(messages)[m].message.runs

\* a message of three runs was saved whose tag changes after each run: the second run,
\* which ends the first group, has a paragraph of its own
C17_Witness ==
    /\ pc = "saved"
    /\ \E m \in 1..Len(Unwrap(messages)) :
          /\ Len(Unwrap(messages)[m].message.runs) = 3
          /\ Len(BodyOf(document, m)) = 3
          /\ is_citation(Unwrap(messages)[m].message.runs[2])
          /\ IsBreakOnly(Unwrap(messages)[m].message.runs[3])

\* the style attribute is absent, empty, or well-formed declarations and a last ';'
LacksDeclaration(attr) ==
    \/ attr = None
    \/ attr = Some("")
    \/ /\ IsSome(attr) /\ Len(Unwrap(attr)) > 1
       /\ CharAt(Unwrap(attr), Len(Unwrap(attr))) = ";"
       /\ ResolveStyle(Some(SubSeq(Unwrap(attr), 1, Len(Unwrap(attr)) - 1))).panic = NoPanic

\* the descriptor of the declarations of such an attribute
WellFormedPart(attr) ==
    IF UnwrapOr(attr, "") = "" THEN DefaultCp
    ELSE ResolveStyle(Some(SubSeq(Unwrap(attr), 1, Len(Unwrap(attr)) - 1))).cp

\* C18 (SpecStyle): resolving a style attribute that is absent, empty, or ends with a ';'
\* after well-formed declarations does not fail, and gives the descriptor of these
\* declarations (the empty descriptor when there are none).
C18_LenientStyle ==
    (HasResolved /\ LacksDeclaration(style_attr)) =>
        /\ Unwrap(resolved).panic = NoPanic
        /\ Unwrap(resolved).cp = WellFormedPart(style_attr)

====
